---- MODULE Spec2Model ----
(***************************************************************************)
(* Retrieval layer of Smart_Search_Engine (src/app.py): the synchronous    *)
(* search adapter fetch_search_results, the asynchronous dataset-job       *)
(* adapter trigger_dataset_job (submit, poll, fetch) and the three tools   *)
(* that bind them, and the home route that runs the agent.  Python strings *)
(* are TLA+ strings; an HTTP response is a tagged record chosen by the     *)
(* backend at every request.  Spec is one call at a time, HomeSpec the     *)
(* request/response cycle of the route, ReplaySpec a call and its          *)
(* repetition against the same responses, ThreadSpec two calls interleaved.*)
(***************************************************************************)
EXTENDS Integers, Sequences, FiniteSets, TLC

VARIABLES
  \* the locals of the running call and the record of its requests
  pc, fn, toolArg, query, target, dataset_id, snapshot_id, result,
  searchResp, submitResp, statusResp, fetchResp,
  lastReq, nPost, nSubmit, nStatus, nFetch, nSleep, nNonReady, slept,
  \* the home route: the request, user_query, the agent and the response
  hpc, hreq, user_query, invoke, hresp,
  \* the record of an earlier call and of the status responses of this one
  mode, first, statusLog,
  \* two request threads: the running one, the locals of the other one and
  \* the handle that the backend issued last
  tid, parked, lastHandle

locals == <<pc, fn, toolArg, query, target, dataset_id, snapshot_id, result,
            searchResp, submitResp, statusResp, fetchResp,
            lastReq, nPost, nSubmit, nStatus, nFetch, nSleep, nNonReady, slept>>
homeVars == <<hpc, hreq, user_query, invoke, hresp>>
replayVars == <<mode, first, statusLog>>
threadVars == <<tid, parked, lastHandle>>

vars == <<locals, homeVars, replayVars, threadVars>>

(***************************************************************************)
(* Bounds of the model.                                                    *)
(***************************************************************************)
\* longest 'organic' array the backend answers with
MaxHits == 3
\* the request counters stop counting here (the polling loop itself goes on)
MaxCount == 4

(***************************************************************************)
(* Program constants.                                                      *)
(***************************************************************************)
\* "\n\n".join(parsed_results)[:10000]
Limit == 10000
\* time.sleep(2)
PollInterval == 2

GOOGLE_URL == "https://google.com/search"
PERPLEXITY_URL == "https://www.perplexity.ai"
\* a dataset target without citations (the BD_GPT_ID dataset)
GPT_URL == "https://chatgpt.com"
BD_PERPLEXITY_ID == "gd_perplexity"
BD_GPT_ID == "gd_gpt"

SEARCH_API == "https://api.brightdata.com/request?async=true"
TRIGGER_API == "https://api.brightdata.com/datasets/v3/trigger?dataset_id="
PROGRESS_API == "https://api.brightdata.com/datasets/v3/progress/"
SNAPSHOT_API == "https://api.brightdata.com/datasets/v3/snapshot/"

(***************************************************************************)
(* Python string helpers.                                                  *)
(***************************************************************************)
Min(a, b) == IF a < b THEN a ELSE b

\* s * n
RECURSIVE Rep(_, _)
Rep(s, n) ==
  IF n = 0 THEN ""
  ELSE IF n % 2 = 1 THEN s \o Rep(s, n - 1)
  ELSE LET h == Rep(s, n \div 2) IN h \o h

\* sub in s
Contains(sub, s) ==
  \E i \in 1..(Len(s) - Len(sub) + 1) : SubSeq(s, i, i + Len(sub) - 1) = sub

\* s.startswith(p)
StartsWith(s, p) == Len(s) >= Len(p) /\ SubSeq(s, 1, Len(p)) = p

\* s.endswith(p)
EndsWith(s, p) == Len(s) >= Len(p) /\ SubSeq(s, Len(s) - Len(p) + 1, Len(s)) = p

\* s.count(sub), overlapping occurrences included
CountOcc(sub, s) ==
  Cardinality({i \in 1..(Len(s) - Len(sub) + 1) : SubSeq(s, i, i + Len(sub) - 1) = sub})

\* s[:n]
Truncate(s, n) == SubSeq(s, 1, Min(Len(s), n))

\* sep.join(parts)
RECURSIVE Join(_, _)
Join(sep, parts) ==
  IF Len(parts) = 0 THEN ""
  ELSE IF Len(parts) = 1 THEN parts[1]
  ELSE parts[1] \o sep \o Join(sep, Tail(parts))

Unreserved ==
  {"a","b","c","d","e","f","g","h","i","j","k","l","m","n","o","p","q","r",
   "s","t","u","v","w","x","y","z","A","B","C","D","E","F","G","H","I","J",
   "K","L","M","N","O","P","Q","R","S","T","U","V","W","X","Y","Z",
   "0","1","2","3","4","5","6","7","8","9","_",".","-","~","/"}

\* percent-encoding of one ASCII character outside the unreserved set
PctEncode(c) ==
  CASE c = " " -> "%20"
    [] c = ":" -> "%3A"
    [] c = "?" -> "%3F"
    [] c = "&" -> "%26"
    [] c = "=" -> "%3D"
    [] c = "#" -> "%23"
    [] c = "+" -> "%2B"
    [] c = "%" -> "%25"
    [] c = "," -> "%2C"
    [] c = "'" -> "%27"

\* requests.utils.quote(query)
RECURSIVE Quote(_)
Quote(s) ==
  IF Len(s) = 0 THEN ""
  ELSE LET c == SubSeq(s, 1, 1)
       IN (IF c \in Unreserved THEN c ELSE PctEncode(c)) \o Quote(SubSeq(s, 2, Len(s)))

(***************************************************************************)
(* JSON values as the code reads them.  A field of a JSON object is        *)
(* absent, null or a string.                                               *)
(***************************************************************************)
Absent == [k |-> "absent", s |-> ""]
Null == [k |-> "null", s |-> ""]
Str(s) == [k |-> "str", s |-> s]

\* d.get(key, default): the default only replaces an absent key
Get(field, default) == IF field.k = "absent" THEN Str(default) ELSE field

\* f"{value}" of a string or of None
Fmt(field) == IF field.k = "str" THEN field.s ELSE "None"

\* truth value of d.get(key): None and "" are falsy
Truthy(field) == field.k = "str" /\ field.s # ""

\* repr() of a list of plain strings
PyReprList(items) ==
  "[" \o Join(", ", [i \in 1..Len(items) |-> "'" \o items[i] \o "'"]) \o "]"

(***************************************************************************)
(* What a call returns: a string, a value that is not a string, or an      *)
(* exception leaving the function.                                         *)
(***************************************************************************)
NoResult == [kind |-> "none", val |-> ""]
RetStr(s) == [kind |-> "str", val |-> s]
RetNone == [kind |-> "nonstr", val |-> "None"]
Raise(detail) == [kind |-> "raise", val |-> detail]

\* return of a JSON field value as it is
RetValue(field) == IF field.k = "str" THEN RetStr(field.s) ELSE RetNone

(***************************************************************************)
(* The backend.  Every request is answered by a response the backend       *)
(* chooses: the transport raises, the body is not JSON, the body is JSON   *)
(* of the wrong shape, or the body is a JSON object or array.              *)
(***************************************************************************)
\* str(e) of a transport exception; the second one is a redirect to a
\* 10,000 character location with an unsupported scheme
ShortDetail == "Connection refused"
LongDetail == "No connection adapters were found for 'ftp://" \o Rep("a", Limit) \o "'"
ExcDetails == {ShortDetail, LongDetail}

\* str(e) of the exceptions raised while reading a response
JsonError == "Expecting value: line 1 column 1 (char 0)"
ListHasNoGet == "'list' object has no attribute 'get'"
StrHasNoGet == "'str' object has no attribute 'get'"
ListIndexNotStr == "list indices must be integers or slices, not str"
KeyErrorStatus == "'status'"
KeyErrorZero == "0"
IndexErrorEmpty == "list index out of range"

\* organic hits the backend answers with; the last one is not an object
LongSnippet == Rep("x", 4990)
HitMenu ==
  { [dict |-> TRUE, title |-> Str("Causes"), link |-> Str("http://a.org"),
     description |-> Str("Greenhouse gases")],
    [dict |-> TRUE, title |-> Str("NASA"), link |-> Absent, description |-> Null],
    [dict |-> TRUE, title |-> Absent, link |-> Absent, description |-> Absent],
    [dict |-> TRUE, title |-> Absent, link |-> Str("http://b.org"),
     description |-> Str(LongSnippet)],
    [dict |-> FALSE, title |-> Absent, link |-> Absent, description |-> Absent] }

HitLists == UNION {[1..n -> HitMenu] : n \in 0..MaxHits}

NoOrganic == [k |-> "absent", hits |-> <<>>]

SearchResponses ==
  {[kind |-> "exc", detail |-> d, organic |-> NoOrganic] : d \in ExcDetails}
  \cup {[kind |-> "badjson", detail |-> JsonError, organic |-> NoOrganic],
        [kind |-> "array", detail |-> ListHasNoGet, organic |-> NoOrganic],
        [kind |-> "obj", detail |-> "", organic |-> NoOrganic],
        [kind |-> "obj", detail |-> "", organic |-> [k |-> "null", hits |-> <<>>]]}
  \cup {[kind |-> "obj", detail |-> "", organic |-> [k |-> "list", hits |-> h]] :
          h \in HitLists}

NoResponse == [kind |-> "none", detail |-> "", organic |-> NoOrganic]

(***************************************************************************)
(* fetch_search_results                                                    *)
(***************************************************************************)
\* payload["url"]
SearchPayloadUrl(q, platform_url) ==
  platform_url \o "?q=" \o Quote(q) \o "&brd_json=1"

\* a hit with any field missing is rendered with all three defaults
FormatHitAllDefaults(item) ==
  IF Absent \in {item.title, item.link, item.description}
  THEN "Title: No Title\nLink: #\nSnippet: No description available"
  ELSE "Title: " \o Fmt(item.title) \o "\nLink: " \o Fmt(item.link)
       \o "\nSnippet: " \o Fmt(item.description)
\* f"Title: {title}\nLink: {link}\nSnippet: {desc}"
FormatHit(item) ==
  "Title: " \o Fmt(Get(item.title, "No Title"))
  \o "\nLink: " \o Fmt(Get(item.link, "#"))
  \o "\nSnippet: " \o Fmt(Get(item.description, "No description available"))

\* parsed_results still holds the blocks of the call before
ParsedResultsKept(hits) ==
  LET old == IF mode = "replay" /\ first.searchResp.organic.k = "list"
             THEN first.searchResp.organic.hits ELSE <<>>
  IN [i \in 1..Len(old) |-> FormatHit(old[i])]
     \o [i \in 1..Len(hits) |-> FormatHit(hits[i])]
\* parsed_results after the for loop
ParsedResults(hits) == [i \in 1..Len(hits) |-> FormatHit(hits[i])]

JoinBlocksNoBlankLine(parts) == Join("\n", parts)
\* "\n\n".join(parsed_results)
JoinBlocks(parts) == Join("\n\n", parts)

\* [:10000]
Cap(s) == Truncate(s, Limit)

NeverEmpty(organic) == FALSE
\* not organic_hits
NoHits(organic) == organic.k \in {"absent", "null"} \/ Len(organic.hits) = 0

ExceptSearchRaises(detail) == Raise(detail)
\* except Exception as e: return f"Error connecting to search API: {str(e)}"
ExceptSearch(detail) == RetStr("Error connecting to search API: " \o detail)

\* the try block and its handler, given the response of the one POST
SearchOutcome(resp) ==
  IF resp.kind \in {"exc", "badjson", "array"} THEN ExceptSearch(resp.detail)
  ELSE IF NoHits(resp.organic) THEN RetStr("No results found.")
  ELSE IF \E i \in 1..Len(resp.organic.hits) : ~resp.organic.hits[i].dict
       THEN ExceptSearch(StrHasNoGet)
  ELSE RetStr(Cap(JoinBlocks(ParsedResults(resp.organic.hits))))

(***************************************************************************)
(* trigger_dataset_job: responses of the three endpoints                   *)
(***************************************************************************)
SnapshotIds == {Absent, Null, Str(""), Str("s_1"), Str("s_2")}

SubmitResponses ==
  {[kind |-> "exc", detail |-> d, snapshot_id |-> Absent] : d \in ExcDetails}
  \cup {[kind |-> "badjson", detail |-> JsonError, snapshot_id |-> Absent],
        [kind |-> "array", detail |-> ListHasNoGet, snapshot_id |-> Absent]}
  \cup {[kind |-> "obj", detail |-> "", snapshot_id |-> f] : f \in SnapshotIds}

Statuses ==
  {Absent, Null, Str("ready"), Str("pending"), Str("running"), Str("failed")}

StatusResponses ==
  {[kind |-> "exc", detail |-> d, status |-> Absent] : d \in ExcDetails}
  \cup {[kind |-> "badjson", detail |-> JsonError, status |-> Absent],
        [kind |-> "array", detail |-> ListIndexNotStr, status |-> Absent]}
  \cup {[kind |-> "obj", detail |-> "", status |-> f] : f \in Statuses}

NoSources == [k |-> "absent", items |-> <<>>]
SourcesMenu ==
  {NoSources, [k |-> "null", items |-> <<>>], [k |-> "list", items |-> <<>>],
   [k |-> "list", items |-> <<"http://s1.org">>],
   [k |-> "list", items |-> <<"http://s1.org", "http://s2.org">>]}

Answers == {Absent, Null, Str("It is 42.")}

\* result records; the last one is a JSON string, not an object
RecordMenu ==
  {[dict |-> TRUE, answer |-> a, sources |-> c] : a \in Answers, c \in SourcesMenu}
  \cup {[dict |-> FALSE, answer |-> Absent, sources |-> NoSources]}

OtherRecord ==
  [dict |-> TRUE, answer |-> Str("second record"), sources |-> NoSources]

RecordLists ==
  {<<>>} \cup {<<r>> : r \in RecordMenu} \cup {<<r, OtherRecord>> : r \in RecordMenu}

FetchResponses ==
  {[kind |-> "exc", detail |-> d, records |-> <<>>] : d \in ExcDetails}
  \cup {[kind |-> "badjson", detail |-> JsonError, records |-> <<>>],
        [kind |-> "obj", detail |-> KeyErrorZero, records |-> <<>>]}
  \cup {[kind |-> "list", detail |-> "", records |-> l] : l \in RecordLists}

NoSubmitResponse == [kind |-> "none", detail |-> "", snapshot_id |-> Absent]
NoStatusResponse == [kind |-> "none", detail |-> "", status |-> Absent]
NoFetchResponse == [kind |-> "none", detail |-> "", records |-> <<>>]

(***************************************************************************)
(* trigger_dataset_job                                                     *)
(***************************************************************************)
AlwaysCitationBearing(target_url) == TRUE
\* "perplexity" in target_url
CitationBearing(target_url) == Contains("perplexity", target_url)

\* trigger_url
TriggerUrl(ds, target_url) ==
  TRIGGER_API \o ds \o "&format=json"
  \o (IF CitationBearing(target_url)
      THEN "&custom_output_fields=answer_text_markdown|sources"
      ELSE "&custom_output_fields=answer_text_markdown")

\* the progress URL built from the handle that was issued last
ProgressUrlLastIssued(sid) == PROGRESS_API \o lastHandle
\* f"https://api.brightdata.com/datasets/v3/progress/{snapshot_id}"
ProgressUrl(sid) == PROGRESS_API \o sid
SnapshotUrl(sid) == SNAPSHOT_API \o sid \o "?format=json"

KeyPresent(field) == field.k # "absent"
\* the negation of: not snapshot_id
HasHandle(field) == Truthy(field)

ReadyOrFailed(field) == field \in {Str("ready"), Str("failed")}
AnyStatus(field) == TRUE
ReadyOrPending(field) == field \in {Str("ready"), Str("pending")}
\* status == 'ready'
IsReady(field) == field = Str("ready")

ExceptJobRaises(detail) == Raise(detail)
ExceptJobAsStartError(detail) == RetStr("Error: Failed to start the job.")
\* except Exception as e: return f"Dataset Job Failed: {str(e)}"
ExceptJob(detail) == RetStr("Dataset Job Failed: " \o detail)

\* return "Error: Failed to start the job."
StartError == RetStr("Error: Failed to start the job.")

\* f"{sources}" of data.get('sources', [])
FmtSources(sources) ==
  CASE sources.k = "absent" -> "[]"
    [] sources.k = "null" -> "None"
    [] sources.k = "list" -> PyReprList(sources.items)

\* the suffix only for a record that carries a sources list
NormalizeSuffixIfSources(data, target_url) ==
  LET answer == Get(data.answer, "No answer generated.")
  IN IF CitationBearing(target_url) /\ data.sources.k = "list"
     THEN RetStr(Fmt(answer) \o "\n\n**Sources:** " \o FmtSources(data.sources))
     ELSE RetValue(answer)

\* lines 117-121: the answer of the result record data
Normalize(data, target_url) ==
  LET answer == Get(data.answer, "No answer generated.")
  IN IF CitationBearing(target_url)
     THEN RetStr(Fmt(answer) \o "\n\n**Sources:** " \o FmtSources(data.sources))
     ELSE RetValue(answer)

\* an empty result array answered with the default answer
FetchOutcomeDefaultOnEmpty(resp, target_url) ==
  IF resp.kind \in {"exc", "badjson", "obj"} THEN ExceptJob(resp.detail)
  ELSE IF Len(resp.records) = 0 THEN RetStr("No answer generated.")
  ELSE IF ~resp.records[1].dict THEN ExceptJob(StrHasNoGet)
  ELSE Normalize(resp.records[1], target_url)

\* lines 111-124: what the call returns on the response of the snapshot fetch
FetchOutcome(resp, target_url) ==
  IF resp.kind \in {"exc", "badjson", "obj"} THEN ExceptJob(resp.detail)
  ELSE IF Len(resp.records) = 0 THEN ExceptJob(IndexErrorEmpty)
  ELSE IF ~resp.records[1].dict THEN ExceptJob(StrHasNoGet)
  ELSE Normalize(resp.records[1], target_url)

(***************************************************************************)
(* State machine                                                           *)
(***************************************************************************)
Queries == {"climate change causes", "python: a?"}

NoRequest == [kind |-> "none", url |-> "", purl |-> "", prompt |-> ""]

\* request counters, exact below MaxCount
Inc(n) == IF n < MaxCount THEN n + 1 ELSE n

\* the locals of a call that has not started
NoLocals ==
  [pc |-> "idle", fn |-> "none", toolArg |-> "", query |-> "", target |-> "",
   dataset_id |-> "", snapshot_id |-> "", result |-> NoResult,
   searchResp |-> NoResponse, submitResp |-> NoSubmitResponse,
   statusResp |-> NoStatusResponse, fetchResp |-> NoFetchResponse,
   lastReq |-> NoRequest, nPost |-> 0, nSubmit |-> 0, nStatus |-> 0,
   nFetch |-> 0, nSleep |-> 0, nNonReady |-> 0, slept |-> 0]

NoHttpRequest == [json |-> FALSE, body |-> "none", query |-> Absent]
NoHttpResponse == [kind |-> "none", status |-> 0, text |-> ""]

\* no earlier call is on record
NoCall ==
  [valid |-> FALSE, fn |-> "none", toolArg |-> "", searchResp |-> NoResponse,
   submitResp |-> NoSubmitResponse, statusLog |-> <<>>,
   fetchResp |-> NoFetchResponse, result |-> NoResult]

Init ==
  /\ pc = "idle" /\ fn = "none" /\ toolArg = "" /\ query = "" /\ target = ""
  /\ dataset_id = "" /\ snapshot_id = "" /\ result = NoResult
  /\ searchResp = NoResponse /\ submitResp = NoSubmitResponse
  /\ statusResp = NoStatusResponse /\ fetchResp = NoFetchResponse
  /\ lastReq = NoRequest
  /\ nPost = 0 /\ nSubmit = 0 /\ nStatus = 0 /\ nFetch = 0
  /\ nSleep = 0 /\ nNonReady = 0 /\ slept = 0
  /\ hpc = "wait" /\ hreq = NoHttpRequest /\ user_query = "" /\ invoke = "none"
  /\ hresp = NoHttpResponse
  /\ mode = "live" /\ first = NoCall /\ statusLog = <<>>
  /\ tid = 1 /\ parked = NoLocals /\ lastHandle = ""

\* entry of a call: fresh locals, nothing requested yet.  The statements
\* before the try (print, quote, the payload and trigger_url) do not fail on
\* the queries of the model, which are text that UTF-8 can encode.
Enter(f, a, q, t, ds, start) ==
  /\ pc = "idle"
  /\ pc' = start /\ fn' = f /\ toolArg' = a /\ query' = q /\ target' = t
  /\ dataset_id' = ds
  /\ snapshot_id' = "" /\ result' = NoResult
  /\ searchResp' = NoResponse /\ submitResp' = NoSubmitResponse
  /\ statusResp' = NoStatusResponse /\ fetchResp' = NoFetchResponse
  /\ lastReq' = NoRequest
  /\ nPost' = 0 /\ nSubmit' = 0 /\ nStatus' = 0 /\ nFetch' = 0
  /\ nSleep' = 0 /\ nNonReady' = 0 /\ slept' = 0

\* the query reddit_tool hands on
RedditQueryUnrestricted(q) == q
\* f"site:reddit.com {query}"
RedditQuery(q) == "site:reddit.com " \o q

\* the body of google_tool(query)
GoogleCall(q) == Enter("google_tool", q, q, GOOGLE_URL, "", "search")

\* the body of reddit_tool(query)
RedditCall(q) ==
  Enter("reddit_tool", q, RedditQuery(q), GOOGLE_URL, "", "search")

\* the body of perplexity_tool(query)
PerplexityCall(q) ==
  Enter("perplexity_tool", q, q, PERPLEXITY_URL, BD_PERPLEXITY_ID, "submit")

\* trigger_dataset_job(query, BD_GPT_ID, target_url) called on a target
\* without citations
DatasetJobCall(q) ==
  Enter("trigger_dataset_job", q, q, GPT_URL, BD_GPT_ID, "submit")

Tools == {"google_tool", "reddit_tool", "perplexity_tool", "trigger_dataset_job"}

\* the call f(q)
ToolCall(f, q) ==
  CASE f = "google_tool" -> GoogleCall(q)
    [] f = "reddit_tool" -> RedditCall(q)
    [] f = "perplexity_tool" -> PerplexityCall(q)
    [] f = "trigger_dataset_job" -> DatasetJobCall(q)

\* google_tool(query)
GoogleTool ==
  /\ \E q \in Queries : GoogleCall(q)
  /\ UNCHANGED <<homeVars, replayVars, threadVars>>

\* reddit_tool(query)
RedditTool ==
  /\ \E q \in Queries : RedditCall(q)
  /\ UNCHANGED <<homeVars, replayVars, threadVars>>

\* perplexity_tool(query)
PerplexityTool ==
  /\ \E q \in Queries : PerplexityCall(q)
  /\ UNCHANGED <<homeVars, replayVars, threadVars>>

\* trigger_dataset_job(query, BD_GPT_ID, "https://chatgpt.com")
TriggerDatasetJob ==
  /\ \E q \in Queries : DatasetJobCall(q)
  /\ UNCHANGED <<homeVars, replayVars, threadVars>>

\* fetch_search_results: the POST answered with resp and everything after it
SearchStep(resp) ==
  /\ pc = "search"
  /\ searchResp' = resp
  /\ result' = SearchOutcome(resp)
  /\ lastReq' = [kind |-> "search", url |-> SEARCH_API,
                 purl |-> SearchPayloadUrl(query, target), prompt |-> ""]
  /\ nPost' = Inc(nPost)
  /\ pc' = "done"
  /\ UNCHANGED <<fn, toolArg, query, target, dataset_id, snapshot_id,
                 submitResp, statusResp, fetchResp, nSubmit, nStatus, nFetch,
                 nSleep, nNonReady, slept>>

SearchRequest ==
  /\ \E resp \in SearchResponses : SearchStep(resp)
  /\ UNCHANGED <<homeVars, replayVars, threadVars>>

\* trigger_dataset_job lines 92-96: the trigger POST answered with resp and
\* the handle test
SubmitStep(resp) ==
  /\ pc = "submit"
  /\ submitResp' = resp
  /\ IF resp.kind # "obj"
     THEN pc' = "done" /\ result' = ExceptJob(resp.detail)
          /\ snapshot_id' = snapshot_id
     ELSE IF ~HasHandle(resp.snapshot_id)
     THEN pc' = "done" /\ result' = StartError /\ snapshot_id' = snapshot_id
     ELSE pc' = "poll" /\ result' = result
          /\ snapshot_id' = Fmt(resp.snapshot_id)
  /\ lastReq' = [kind |-> "submit", url |-> TriggerUrl(dataset_id, target),
                 purl |-> target, prompt |-> query]
  /\ nSubmit' = Inc(nSubmit)
  /\ UNCHANGED <<fn, toolArg, query, target, dataset_id, searchResp,
                 statusResp, fetchResp, nPost, nStatus, nFetch, nSleep,
                 nNonReady, slept>>

SubmitRequest ==
  /\ \E resp \in SubmitResponses : SubmitStep(resp)
  /\ UNCHANGED <<homeVars, replayVars, threadVars>>

\* a status response that carries a status other than 'ready'
NonReadyResponse(resp) ==
  resp.kind = "obj" /\ resp.status.k # "absent" /\ resp.status # Str("ready")

\* lines 100-107: one progress GET answered with resp and the test of its
\* status
StatusStep(resp) ==
  /\ pc = "poll"
  /\ statusResp' = resp
  /\ nNonReady' = IF NonReadyResponse(resp) THEN Inc(nNonReady) ELSE nNonReady
  /\ IF resp.kind # "obj"
     THEN pc' = "done" /\ result' = ExceptJob(resp.detail)
     ELSE IF resp.status.k = "absent"
     THEN pc' = "done" /\ result' = ExceptJob(KeyErrorStatus)
     ELSE IF IsReady(resp.status)
     THEN pc' = "fetch" /\ result' = result
     ELSE pc' = "sleep" /\ result' = result
  /\ lastReq' = [kind |-> "status", url |-> ProgressUrl(snapshot_id),
                 purl |-> "", prompt |-> ""]
  /\ nStatus' = Inc(nStatus)
  /\ UNCHANGED <<fn, toolArg, query, target, dataset_id, snapshot_id,
                 searchResp, submitResp, fetchResp, nPost, nSubmit, nFetch,
                 nSleep, slept>>

StatusRequest ==
  /\ \E resp \in StatusResponses : StatusStep(resp)
  /\ UNCHANGED <<homeVars, replayVars, threadVars>>

\* line 108: time.sleep(2)
SleepStep ==
  /\ pc = "sleep"
  /\ pc' = "poll"
  /\ nSleep' = Inc(nSleep)
  /\ slept' = IF nSleep < MaxCount THEN slept + PollInterval ELSE slept
  /\ UNCHANGED <<fn, toolArg, query, target, dataset_id, snapshot_id, result,
                 searchResp, submitResp, statusResp, fetchResp, lastReq, nPost,
                 nSubmit, nStatus, nFetch, nNonReady>>

\* a wait of twice the interval
SleepDoubled ==
  /\ pc = "sleep"
  /\ pc' = "poll"
  /\ nSleep' = Inc(nSleep)
  /\ slept' = IF nSleep < MaxCount THEN slept + 2 * PollInterval ELSE slept
  /\ UNCHANGED <<fn, toolArg, query, target, dataset_id, snapshot_id, result,
                 searchResp, submitResp, statusResp, fetchResp, lastReq, nPost,
                 nSubmit, nStatus, nFetch, nNonReady>>
  /\ UNCHANGED <<homeVars, replayVars, threadVars>>

Sleep ==
  /\ SleepStep
  /\ UNCHANGED <<homeVars, replayVars, threadVars>>

\* lines 111-124: the snapshot GET answered with resp and the normalisation
\* of its first record
FetchStep(resp) ==
  /\ pc = "fetch"
  /\ fetchResp' = resp
  /\ result' = FetchOutcome(resp, target)
  /\ lastReq' = [kind |-> "fetch", url |-> SnapshotUrl(snapshot_id),
                 purl |-> "", prompt |-> ""]
  /\ nFetch' = Inc(nFetch)
  /\ pc' = "done"
  /\ UNCHANGED <<fn, toolArg, query, target, dataset_id, snapshot_id,
                 searchResp, submitResp, statusResp, nPost, nSubmit, nStatus,
                 nSleep, nNonReady, slept>>

FetchRequest ==
  /\ \E resp \in FetchResponses : FetchStep(resp)
  /\ UNCHANGED <<homeVars, replayVars, threadVars>>

\* the caller takes the returned value; the next call may start
ReturnStep ==
  /\ pc = "done"
  /\ pc' = "idle"
  /\ UNCHANGED <<fn, toolArg, query, target, dataset_id, snapshot_id, result,
                 searchResp, submitResp, statusResp, fetchResp, lastReq, nPost,
                 nSubmit, nStatus, nFetch, nSleep, nNonReady, slept>>

Return ==
  /\ ReturnStep
  /\ UNCHANGED <<homeVars, replayVars, threadVars>>

Next ==
  \/ GoogleTool \/ RedditTool \/ PerplexityTool \/ TriggerDatasetJob
  \/ SearchRequest \/ SubmitRequest \/ StatusRequest \/ Sleep \/ FetchRequest
  \/ Return

Spec == Init /\ [][Next]_vars

\* the thread inside trigger_dataset_job keeps running: every request it is
\* about to send is sent and answered, every sleep ends, the call returns
FairSpec ==
  /\ Init /\ [][Next]_vars
  /\ WF_vars(SubmitRequest) /\ WF_vars(StatusRequest) /\ WF_vars(Sleep)
  /\ WF_vars(FetchRequest) /\ WF_vars(Return)

(***************************************************************************)
(* The home route (lines 162-182): one request/response cycle.  While the  *)
(* agent runs it calls the tools; it ends with a final answer or raises.   *)
(***************************************************************************)
\* the characters c with c.isspace() that a string of the model can hold
\* (the module is read as UTF-8): space, tab, line feed, form feed, carriage
\* return, then the vertical tab U+000B, the separators U+001C to U+001F,
\* the next line U+0085, the no-break space U+00A0 and the ogham space mark
\* U+1680, written as the characters themselves.  The code strips the
\* spaces U+2000 to U+200A, U+2028, U+2029, U+202F, U+205F and U+3000 as
\* well; no string of the model holds them.
Whitespace ==
  {" ", "\t", "\n", "\f", "\r",
   "", "", "", "", "", "", " ", " "}

RECURSIVE LStrip(_)
LStrip(s) ==
  IF Len(s) > 0 /\ SubSeq(s, 1, 1) \in Whitespace
  THEN LStrip(SubSeq(s, 2, Len(s))) ELSE s

RECURSIVE RStrip(_)
RStrip(s) ==
  IF Len(s) > 0 /\ SubSeq(s, Len(s), Len(s)) \in Whitespace
  THEN RStrip(SubSeq(s, 1, Len(s) - 1)) ELSE s

\* s.strip()
Strip(s) == RStrip(LStrip(s))

NoneHasNoStrip == "'NoneType' object has no attribute 'strip'"

\* the "query" member of a JSON body
QueryFields ==
  {Absent, Null, Str(""), Str(" \t\n"), Str("\f"), Str("\f \r "),
   Str("  python: a? "), Str(" \f python: a?\r\f "),
   Str("climate change causes")}

\* a page load, a JSON object with or without a query, a JSON array
HttpRequests ==
  {[json |-> FALSE, body |-> "page", query |-> Absent],
   [json |-> TRUE, body |-> "array", query |-> Absent]}
  \cup {[json |-> TRUE, body |-> "object", query |-> f] : f \in QueryFields}

\* result["messages"][-1].content
FinalAnswers == {"Greenhouse gases. Sources: http://a.org", ""}

\* render_template("index.html")
Page == [kind |-> "page", status |-> 200, text |-> "index.html"]
\* jsonify({"error": msg}), status
ErrorBody(status, msg) == [kind |-> "error", status |-> status, text |-> msg]
\* jsonify({"answer": final_answer})
AnswerBody(a) == [kind |-> "answer", status |-> 200, text |-> a]
\* an exception leaves home; no response is made by the route
Propagates(detail) == [kind |-> "raise", status |-> 0, text |-> detail]

\* lines 165-170: the request arrives and is validated
HomeRequest ==
  /\ hpc = "wait" /\ pc = "idle"
  /\ \E r \in HttpRequests :
       /\ hreq' = r
       /\ IF ~r.json
          THEN hresp' = Page /\ hpc' = "sent" /\ user_query' = user_query
               /\ invoke' = invoke
          ELSE IF r.body # "object"
          THEN hresp' = Propagates(ListHasNoGet) /\ hpc' = "sent"
               /\ user_query' = user_query /\ invoke' = invoke
          ELSE LET q == Get(r.query, "")
               IN IF q.k # "str"
                  THEN hresp' = Propagates(NoneHasNoStrip) /\ hpc' = "sent"
                       /\ user_query' = user_query /\ invoke' = invoke
                  ELSE /\ user_query' = Strip(q.s)
                       /\ IF Strip(q.s) = ""
                          THEN /\ hresp' = ErrorBody(400, "Please enter a valid query.")
                               /\ hpc' = "sent" /\ invoke' = invoke
                          ELSE /\ hresp' = hresp /\ hpc' = "agent"
                               /\ invoke' = "running"
  /\ UNCHANGED <<locals, replayVars, threadVars>>

\* inside smart_search_engine.invoke: the agent calls a tool, the tool runs
AgentStep == hpc = "agent" /\ Next

\* lines 175-176: invoke returns and the last message is the answer
AgentReturns ==
  /\ hpc = "agent" /\ pc = "idle"
  /\ \E a \in FinalAnswers : hresp' = AnswerBody(a)
  /\ invoke' = "returned" /\ hpc' = "sent"
  /\ UNCHANGED <<hreq, user_query, locals, replayVars, threadVars>>

\* lines 177-179: invoke, or the reading of its result, raises
AgentRaises ==
  /\ hpc = "agent" /\ pc = "idle"
  /\ hresp' = ErrorBody(500, "Internal Server Error. Check logs.")
  /\ invoke' = "raised" /\ hpc' = "sent"
  /\ UNCHANGED <<hreq, user_query, locals, replayVars, threadVars>>

\* the response has left; the route waits for the next request
HomeDone ==
  /\ hpc = "sent"
  /\ hpc' = "wait" /\ hreq' = NoHttpRequest /\ user_query' = ""
  /\ invoke' = "none" /\ hresp' = NoHttpResponse
  /\ UNCHANGED <<locals, replayVars, threadVars>>

HomeNext ==
  \/ HomeRequest \/ AgentStep \/ AgentReturns \/ AgentRaises \/ HomeDone

HomeSpec == Init /\ [][HomeNext]_vars

(***************************************************************************)
(* Two successive calls of one tool with the same argument.  The first     *)
(* call is answered as the backend likes and put on record when it         *)
(* returns; the second call is answered, request by request, with the      *)
(* responses on record.                                                    *)
(***************************************************************************)
\* most non-ready statuses the backend gives to a call that is recorded
MaxLog == 2

\* the first call
FirstCall ==
  /\ mode = "live" /\ ~first.valid
  /\ \E f \in Tools, q \in Queries : ToolCall(f, q)
  /\ statusLog' = <<>>
  /\ UNCHANGED <<mode, first, homeVars, threadVars>>

\* the same tool called again with the same argument
SecondCall ==
  /\ mode = "live" /\ first.valid
  /\ ToolCall(first.fn, first.toolArg)
  /\ mode' = "replay" /\ statusLog' = <<>>
  /\ UNCHANGED <<first, homeVars, threadVars>>

ReplaySearch ==
  /\ \E resp \in (IF mode = "replay" THEN {first.searchResp}
                  ELSE SearchResponses) : SearchStep(resp)
  /\ UNCHANGED <<replayVars, homeVars, threadVars>>

ReplaySubmit ==
  /\ \E resp \in (IF mode = "replay" THEN {first.submitResp}
                  ELSE SubmitResponses) : SubmitStep(resp)
  /\ UNCHANGED <<replayVars, homeVars, threadVars>>

\* the progress GET number Len(statusLog) + 1 of the call
ReplayStatus ==
  /\ \E resp \in (IF mode = "replay"
                  THEN {first.statusLog[i] :
                          i \in {Len(statusLog) + 1} \cap DOMAIN first.statusLog}
                  ELSE {r \in StatusResponses :
                          NonReadyResponse(r) => Len(statusLog) < MaxLog}) :
       /\ StatusStep(resp)
       /\ statusLog' = Append(statusLog, resp)
  /\ UNCHANGED <<mode, first, homeVars, threadVars>>

ReplaySleep ==
  /\ SleepStep
  /\ UNCHANGED <<replayVars, homeVars, threadVars>>

ReplayFetch ==
  /\ \E resp \in (IF mode = "replay" THEN {first.fetchResp}
                  ELSE FetchResponses) : FetchStep(resp)
  /\ UNCHANGED <<replayVars, homeVars, threadVars>>

\* the first call goes on record; after the second one the record is dropped
ReplayReturn ==
  /\ ReturnStep
  /\ IF mode = "live"
     THEN /\ first' = [valid |-> TRUE, fn |-> fn, toolArg |-> toolArg,
                       searchResp |-> searchResp, submitResp |-> submitResp,
                       statusLog |-> statusLog, fetchResp |-> fetchResp,
                       result |-> result]
          /\ mode' = mode
     ELSE first' = NoCall /\ mode' = "live"
  /\ statusLog' = <<>>
  /\ UNCHANGED <<homeVars, threadVars>>

ReplayNext ==
  \/ FirstCall \/ SecondCall \/ ReplaySearch \/ ReplaySubmit \/ ReplayStatus
  \/ ReplaySleep \/ ReplayFetch \/ ReplayReturn

ReplaySpec == Init /\ [][ReplayNext]_vars

(***************************************************************************)
(* Two request threads, each calling the asynchronous tools.  One thread   *)
(* runs at a time and the interpreter may switch to the other one between  *)
(* any two steps; the locals of the thread that does not run are parked.   *)
(***************************************************************************)
\* most non-ready statuses the backend gives to a call of a thread
MaxThreadPolls == 1

\* the query of the request that thread t serves
ThreadQuery(t) == IF t = 1 THEN "climate change causes" ELSE "python: a?"

ThreadSubmitResponses ==
  {r \in SubmitResponses : r.kind = "obj" \/ r.detail = ShortDetail}

ThreadStatusResponses ==
  {r \in StatusResponses :
     \/ r.kind = "obj" /\ r.status \in {Absent, Str("ready"), Str("pending")}
     \/ r.kind = "exc" /\ r.detail = ShortDetail}

ThreadFetchResponses ==
  {r \in FetchResponses :
     \/ r.kind = "exc" /\ r.detail = ShortDetail
     \/ r.kind = "list" /\ r.records = <<>>
     \/ /\ r.kind = "list" /\ Len(r.records) = 1 /\ r.records[1].dict
        /\ r.records[1].answer = Str("It is 42.")
        /\ r.records[1].sources.k = "list" /\ Len(r.records[1].sources.items) = 1}

\* the locals of the running call
Locals ==
  [pc |-> pc, fn |-> fn, toolArg |-> toolArg, query |-> query,
   target |-> target, dataset_id |-> dataset_id, snapshot_id |-> snapshot_id,
   result |-> result, searchResp |-> searchResp, submitResp |-> submitResp,
   statusResp |-> statusResp, fetchResp |-> fetchResp, lastReq |-> lastReq,
   nPost |-> nPost, nSubmit |-> nSubmit, nStatus |-> nStatus,
   nFetch |-> nFetch, nSleep |-> nSleep, nNonReady |-> nNonReady,
   slept |-> slept]

\* the running thread starts perplexity_tool or trigger_dataset_job
ThreadCall ==
  /\ \E f \in {"perplexity_tool", "trigger_dataset_job"} :
       ToolCall(f, ThreadQuery(tid))
  /\ UNCHANGED <<threadVars, homeVars, replayVars>>

\* the trigger POST; the backend issues a handle
ThreadSubmit ==
  /\ \E resp \in ThreadSubmitResponses :
       /\ SubmitStep(resp)
       /\ lastHandle' = IF resp.snapshot_id.k = "str" THEN resp.snapshot_id.s
                        ELSE lastHandle
  /\ UNCHANGED <<tid, parked, homeVars, replayVars>>

ThreadStatus ==
  /\ \E resp \in {r \in ThreadStatusResponses :
                    NonReadyResponse(r) => nNonReady < MaxThreadPolls} :
       StatusStep(resp)
  /\ UNCHANGED <<threadVars, homeVars, replayVars>>

ThreadSleep ==
  /\ SleepStep
  /\ UNCHANGED <<threadVars, homeVars, replayVars>>

ThreadFetch ==
  /\ \E resp \in ThreadFetchResponses : FetchStep(resp)
  /\ UNCHANGED <<threadVars, homeVars, replayVars>>

ThreadReturn ==
  /\ ReturnStep
  /\ UNCHANGED <<threadVars, homeVars, replayVars>>

\* the interpreter switches to the other thread
Switch ==
  /\ tid' = 3 - tid
  /\ parked' = Locals
  /\ pc' = parked.pc /\ fn' = parked.fn /\ toolArg' = parked.toolArg
  /\ query' = parked.query /\ target' = parked.target
  /\ dataset_id' = parked.dataset_id /\ snapshot_id' = parked.snapshot_id
  /\ result' = parked.result /\ searchResp' = parked.searchResp
  /\ submitResp' = parked.submitResp /\ statusResp' = parked.statusResp
  /\ fetchResp' = parked.fetchResp /\ lastReq' = parked.lastReq
  /\ nPost' = parked.nPost /\ nSubmit' = parked.nSubmit
  /\ nStatus' = parked.nStatus /\ nFetch' = parked.nFetch
  /\ nSleep' = parked.nSleep /\ nNonReady' = parked.nNonReady
  /\ slept' = parked.slept
  /\ UNCHANGED <<lastHandle, homeVars, replayVars>>

ThreadNext ==
  \/ ThreadCall \/ ThreadSubmit \/ ThreadStatus \/ ThreadSleep \/ ThreadFetch
  \/ ThreadReturn \/ Switch

ThreadSpec == Init /\ [][ThreadNext]_vars

(***************************************************************************)
(* Vocabulary of the properties                                            *)
(***************************************************************************)
SearchCall == fn \in {"google_tool", "reddit_tool"}
JobCall == fn \in {"perplexity_tool", "trigger_dataset_job"}
Returned == pc = "done"

\* the transport raised or the body could not be read as the expected JSON
SearchFailure == searchResp.kind \in {"exc", "badjson", "array"}
SubmitFailure == submitResp.kind \in {"exc", "badjson", "array"}
NoHandleResponse ==
  submitResp.kind = "obj" /\ submitResp.snapshot_id \in {Absent, Null, Str("")}
StatusFailure ==
  \/ statusResp.kind \in {"exc", "badjson", "array"}
  \/ statusResp.kind = "obj" /\ statusResp.status = Absent
FetchFailure ==
  \/ fetchResp.kind \in {"exc", "badjson", "obj"}
  \/ fetchResp.kind = "list" /\ fetchResp.records = <<>>
  \/ fetchResp.kind = "list" /\ fetchResp.records # <<>> /\ ~fetchResp.records[1].dict
FetchedRecord ==
  fetchResp.kind = "list" /\ fetchResp.records # <<>> /\ fetchResp.records[1].dict

(***************************************************************************)
(* C2: once the job is accepted and every status response is well formed   *)
(* but never 'ready', trigger_dataset_job eventually returns a timeout     *)
(* error string.                                                           *)
(***************************************************************************)
PendingStatus ==
  statusResp.kind = "obj" /\ statusResp.status.k = "str"
  /\ statusResp.status.s # "ready"

TimeoutError ==
  /\ result.kind = "str"
  /\ \/ Contains("imeout", result.val)
     \/ Contains("imed out", result.val)
     \/ Contains("deadline", result.val)

C2_PollingTerminates ==
  (pc = "sleep" /\ PendingStatus)
    ~> ((Returned /\ TimeoutError) \/ ~PendingStatus)

(***************************************************************************)
(* C3: a submission response without a snapshot_id (absent, null or empty) *)
(* makes the call return a string containing "Failed to start the job."    *)
(* with the submission as its only request.                                *)
(***************************************************************************)
C3_NoHandleNoPolling ==
  NoHandleResponse =>
    /\ pc \in {"done", "idle"}
    /\ result.kind = "str" /\ Contains("Failed to start the job.", result.val)
    /\ nSubmit = 1 /\ nStatus = 0 /\ nFetch = 0 /\ nSleep = 0
    /\ lastReq.kind = "submit"

\* the backend answered the submission with {"snapshot_id": null}
C3_Witness ==
  /\ Returned /\ JobCall /\ submitResp.kind = "obj" /\ submitResp.snapshot_id = Null
  /\ nSubmit = 1

(***************************************************************************)
(* C4: k statuses other than 'ready' followed by 'ready' cost exactly k+1  *)
(* status requests, then exactly one snapshot fetch, and no status request *)
(* follows the fetch.                                                      *)
(***************************************************************************)
ReadySeen == statusResp.kind = "obj" /\ statusResp.status = Str("ready")

C4_PollCount ==
  /\ [](ReadySeen /\ nStatus < MaxCount => nStatus = nNonReady + 1)
  /\ [](ReadySeen => nFetch = IF pc = "fetch" THEN 0 ELSE 1)
  /\ [](nFetch > 0 => ReadySeen)
  /\ [][nFetch = 1 /\ nFetch' = 1 => nStatus' = nStatus]_vars

\* [pending, pending, ready]: three status requests, then one fetch
C4_Witness ==
  /\ Returned /\ JobCall /\ nNonReady = 2 /\ nStatus = 3 /\ nFetch = 1
  /\ lastReq.kind = "fetch" /\ FetchedRecord

(***************************************************************************)
(* C5 as stated: every failure inside the guarded section of               *)
(* trigger_dataset_job, a submission response without a job handle         *)
(* included, is returned as a string of the form                           *)
(* "... Job Failed: {detail}".                                             *)
(***************************************************************************)
JobFailedForm == result.kind = "str" /\ Contains("Job Failed: ", result.val)

C5_EveryFailureIsJobFailed ==
  Returned /\ JobCall
    /\ (SubmitFailure \/ NoHandleResponse \/ StatusFailure \/ FetchFailure)
    => JobFailedForm

(***************************************************************************)
(* C5 amended: a transport failure or a malformed response at the submit,  *)
(* status or fetch step is returned as "Dataset Job Failed: {detail}";     *)
(* a submission response without a job handle is returned as               *)
(* "Error: Failed to start the job.", which is not of that form.           *)
(***************************************************************************)
C5_FailureStrings ==
  Returned /\ JobCall =>
    /\ SubmitFailure => result = RetStr("Dataset Job Failed: " \o submitResp.detail)
    /\ statusResp.kind \in {"exc", "badjson", "array"} =>
         result = RetStr("Dataset Job Failed: " \o statusResp.detail)
    /\ fetchResp.kind \in {"exc", "badjson", "obj"} =>
         result = RetStr("Dataset Job Failed: " \o fetchResp.detail)
    /\ StatusFailure \/ FetchFailure =>
         result.kind = "str" /\ StartsWith(result.val, "Dataset Job Failed: ")
    /\ NoHandleResponse =>
         result = RetStr("Error: Failed to start the job.") /\ ~JobFailedForm

\* a status response without the 'status' key ended the call
C5_Witness ==
  /\ Returned /\ JobCall /\ statusResp.kind = "obj" /\ statusResp.status = Absent
  /\ result = RetStr("Dataset Job Failed: 'status'")

(***************************************************************************)
(* C6: the string returned by fetch_search_results never exceeds 10,000    *)
(* characters for any backend outcome; joined hit text longer than that is *)
(* cut to its first 10,000 characters, shorter text is returned whole.     *)
(***************************************************************************)
AllObjects(hits) == \A i \in 1..Len(hits) : hits[i].dict

\* the search response carries at least one hit and every hit is an object
HitsReturned ==
  /\ searchResp.kind = "obj" /\ searchResp.organic.k = "list"
  /\ Len(searchResp.organic.hits) >= 1 /\ AllObjects(searchResp.organic.hits)

\* the hit blocks joined by blank lines, before any cut
JoinedHits == Join("\n\n", ParsedResults(searchResp.organic.hits))

C6_LengthCap ==
  Returned /\ SearchCall =>
    /\ result.kind = "str" /\ Len(result.val) <= Limit
    /\ HitsReturned /\ Len(JoinedHits) > Limit =>
         Len(result.val) = Limit /\ result.val = SubSeq(JoinedHits, 1, Limit)
    /\ HitsReturned /\ Len(JoinedHits) <= Limit => result.val = JoinedHits

(***************************************************************************)
(* C7: a search response without an 'organic' array, or with an empty one, *)
(* makes fetch_search_results return exactly "No results found.".          *)
(***************************************************************************)
C7_NoResults ==
  Returned /\ SearchCall /\ searchResp.kind = "obj"
    /\ (searchResp.organic.k = "absent"
        \/ (searchResp.organic.k = "list" /\ searchResp.organic.hits = <<>>))
    => result = RetStr("No results found.")

\* the backend answered {"organic": []}
C7_Witness ==
  /\ Returned /\ SearchCall /\ searchResp.kind = "obj"
  /\ searchResp.organic.k = "list" /\ searchResp.organic.hits = <<>>
  /\ result.kind = "str"

(***************************************************************************)
(* C8 as stated: for N >= 1 hits the output consists of exactly N blocks   *)
(* "Title: {t}\nLink: {l}\nSnippet: {s}" in the order of the array,        *)
(* consecutive blocks separated by exactly one blank line.                 *)
(***************************************************************************)
\* where block i starts in the output, counted from 0
RECURSIVE BlockOffset(_, _)
BlockOffset(blocks, i) ==
  IF i = 1 THEN 0 ELSE BlockOffset(blocks, i - 1) + Len(blocks[i - 1]) + 2

\* out is blocks[1], blank line, blocks[2], ..., blocks[N] and nothing else
BlocksInOrder(out, blocks) ==
  LET N == Len(blocks)
  IN /\ Len(out) = BlockOffset(blocks, N) + Len(blocks[N])
     /\ \A i \in 1..N :
          SubSeq(out, BlockOffset(blocks, i) + 1,
                 BlockOffset(blocks, i) + Len(blocks[i])) = blocks[i]
     /\ \A i \in 1..(N - 1) :
          SubSeq(out, BlockOffset(blocks, i) + Len(blocks[i]) + 1,
                 BlockOffset(blocks, i + 1)) = "\n\n"
     /\ CountOcc("Title: ", out) = N

HitBlocks == ParsedResults(searchResp.organic.hits)

C8_BlocksForEveryHit ==
  Returned /\ SearchCall /\ HitsReturned =>
    result.kind = "str" /\ BlocksInOrder(result.val, HitBlocks)

(***************************************************************************)
(* C8 amended: the same, provided the joined blocks are at most 10,000     *)
(* characters long; when they are longer the output is the first 10,000    *)
(* characters of the joined blocks, so the last blocks are cut or missing. *)
(***************************************************************************)
C8_BlocksUnlessTruncated ==
  Returned /\ SearchCall /\ HitsReturned =>
    /\ result.kind = "str"
    /\ BlockOffset(HitBlocks, Len(HitBlocks)) + Len(HitBlocks[Len(HitBlocks)]) <= Limit
         => BlocksInOrder(result.val, HitBlocks)
    /\ BlockOffset(HitBlocks, Len(HitBlocks)) + Len(HitBlocks[Len(HitBlocks)]) > Limit
         => /\ Len(result.val) = Limit
            /\ \A i \in 1..Len(HitBlocks) :
                 BlockOffset(HitBlocks, i) + Len(HitBlocks[i]) <= Limit =>
                   SubSeq(result.val, BlockOffset(HitBlocks, i) + 1,
                          BlockOffset(HitBlocks, i) + Len(HitBlocks[i])) = HitBlocks[i]

\* two different hits came back as two blocks with one blank line between
C8_Witness ==
  /\ Returned /\ SearchCall /\ HitsReturned
  /\ Len(searchResp.organic.hits) = 2
  /\ searchResp.organic.hits[1] # searchResp.organic.hits[2]
  /\ Len(result.val) < Limit
  /\ CountOcc("\n\n", result.val) = 1

(***************************************************************************)
(* C9: for a fetched result record the citation-bearing target returns the *)
(* answer followed by a "**Sources:**" suffix when the record carries      *)
(* sources, any other target returns the answer alone without that suffix, *)
(* and a record without an answer field yields "No answer generated.".     *)
(***************************************************************************)
\* the answer of the first fetched record as the caller is to see it
ExpectedAnswer ==
  LET a == fetchResp.records[1].answer
  IN IF a.k = "absent" THEN "No answer generated."
     ELSE IF a.k = "str" THEN a.s ELSE "None"

C9_SourcesSuffix ==
  Returned /\ JobCall /\ FetchedRecord =>
    /\ fn = "perplexity_tool" /\ fetchResp.records[1].sources.k = "list" =>
         /\ result.kind = "str"
         /\ StartsWith(result.val, ExpectedAnswer \o "\n\n**Sources:** ")
         /\ EndsWith(result.val,
              "**Sources:** " \o PyReprList(fetchResp.records[1].sources.items))
    /\ fn = "trigger_dataset_job" =>
         /\ result.val = ExpectedAnswer
         /\ ~Contains("**Sources:**", result.val)
         /\ fetchResp.records[1].answer.k # "null" => result.kind = "str"

\* perplexity_tool returned a record with two sources and no answer field
C9_Witness ==
  /\ Returned /\ fn = "perplexity_tool" /\ FetchedRecord
  /\ fetchResp.records[1].answer = Absent
  /\ Len(fetchResp.records[1].sources.items) = 2
  /\ StartsWith(result.val, "No answer generated.")

(***************************************************************************)
(* C10: fetch_search_results sends exactly one request per call; when the  *)
(* transport fails or the body cannot be parsed it does not retry and      *)
(* returns a string beginning "Error connecting to search API: ".          *)
(***************************************************************************)
C10_SingleCallNoRetry ==
  SearchCall =>
    /\ nSubmit = 0 /\ nStatus = 0 /\ nFetch = 0 /\ nSleep = 0
    /\ nPost = IF pc = "search" THEN 0 ELSE 1
    /\ pc \in {"search", "done", "idle"}
    /\ Returned /\ searchResp.kind \in {"exc", "badjson"} =>
         /\ result.kind = "str"
         /\ StartsWith(result.val, "Error connecting to search API: ")
         /\ result.val = "Error connecting to search API: " \o searchResp.detail

\* the body of the search response was not JSON
C10_Witness ==
  /\ Returned /\ SearchCall /\ searchResp.kind = "badjson" /\ nPost = 1
  /\ result.kind = "str"

(***************************************************************************)
(* C11: during polling every status other than 'ready' ('pending',         *)
(* 'failed', an unknown value) is treated as pending: the call does not    *)
(* return, does not fetch, and goes on to another status request.          *)
(***************************************************************************)
C11_NonReadyIsPending ==
  /\ [][pc = "poll" /\ pc' # "poll" /\ NonReadyResponse(statusResp')
          => pc' = "sleep" /\ result' = NoResult /\ nFetch' = 0]_vars
  /\ [][pc = "sleep" /\ pc' # "sleep" => pc' = "poll" /\ lastReq' = lastReq]_vars
  /\ [][pc = "poll" /\ pc' # "poll"
          => lastReq'.kind = "status" /\ (nStatus < MaxCount => nStatus' = nStatus + 1)]_vars

\* 'failed' was answered and the call is about to ask for the status again
C11_Witness ==
  /\ pc = "poll" /\ JobCall /\ statusResp.kind = "obj"
  /\ statusResp.status = Str("failed") /\ nStatus = 1 /\ nSleep = 1
  /\ result = NoResult

(***************************************************************************)
(* C15: every organic hit gets its defaults field by field: "No Title"     *)
(* for a missing title, "#" for a missing link, "No description available" *)
(* for a missing description, and a field that is present is rendered as   *)
(* it is.                                                                  *)
(***************************************************************************)
\* a field as the output is to show it
Rendered(field, default) ==
  CASE field.k = "absent" -> default
    [] field.k = "str" -> field.s
    [] field.k = "null" -> "None"

ExpectedBlock(item) ==
  "Title: " \o Rendered(item.title, "No Title")
  \o "\nLink: " \o Rendered(item.link, "#")
  \o "\nSnippet: " \o Rendered(item.description, "No description available")

C15_DefaultsPerField ==
  Returned /\ SearchCall /\ HitsReturned =>
    \A i \in 1..Len(HitBlocks) :
      BlockOffset(HitBlocks, i) + Len(HitBlocks[i]) <= Limit =>
        SubSeq(result.val, BlockOffset(HitBlocks, i) + 1,
               BlockOffset(HitBlocks, i) + Len(HitBlocks[i]))
          = ExpectedBlock(searchResp.organic.hits[i])

\* a hit with a title and no link, and a hit with a link and no title
C15_Witness ==
  /\ Returned /\ SearchCall /\ HitsReturned /\ Len(searchResp.organic.hits) = 2
  /\ searchResp.organic.hits[1].title = Str("NASA")
  /\ searchResp.organic.hits[1].link = Absent
  /\ searchResp.organic.hits[2].title = Absent
  /\ searchResp.organic.hits[2].link = Str("http://b.org")
  /\ StartsWith(result.val, "Title: NASA\nLink: #\nSnippet: ")

(***************************************************************************)
(* C16: the requests of trigger_dataset_job follow SUBMITTED -> POLLING -> *)
(* READY -> FETCHED: one submission, first; status requests only after a   *)
(* submission that returned a handle; at most one snapshot fetch, only     *)
(* right after a 'ready' status; no request after the call has returned.   *)
(***************************************************************************)
C16_RequestOrder ==
  /\ [](JobCall /\ lastReq.kind # "none" => nSubmit = 1 /\ nPost = 0)
  /\ [][JobCall' /\ lastReq.kind = "none" /\ lastReq'.kind # "none"
          => lastReq'.kind = "submit"]_vars
  /\ [](JobCall /\ (nStatus > 0 \/ pc \in {"poll", "sleep", "fetch"})
          => submitResp.kind = "obj" /\ submitResp.snapshot_id.k = "str"
             /\ submitResp.snapshot_id.s # "")
  /\ [](nFetch <= 1)
  /\ [][nFetch' = nFetch + 1
          => lastReq.kind = "status" /\ statusResp.kind = "obj"
             /\ statusResp.status = Str("ready")]_vars
  /\ [][pc = "done" => pc' = "idle" /\ lastReq' = lastReq /\ nSubmit' = nSubmit
             /\ nStatus' = nStatus /\ nFetch' = nFetch]_vars

\* submitted, polled twice, fetched and returned after an error of the fetch
C16_Witness ==
  /\ Returned /\ JobCall /\ nSubmit = 1 /\ nStatus = 2 /\ nFetch = 1
  /\ FetchFailure /\ lastReq.kind = "fetch"

(***************************************************************************)
(* C17: each status other than 'ready' is followed by exactly one wait of  *)
(* 2 time units before the next status request; nothing is waited before   *)
(* the first status request or between 'ready' and the fetch, so k         *)
(* non-ready statuses cause exactly k waits.                               *)
(***************************************************************************)
C17_OneWaitPerNonReady ==
  /\ [](JobCall /\ nNonReady < MaxCount
          => /\ nSleep = IF pc = "sleep" THEN nNonReady - 1 ELSE nNonReady
             /\ slept = 2 * nSleep)
  /\ [](pc = "sleep" => NonReadyResponse(statusResp) /\ lastReq.kind = "status")
  /\ [][nSleep' = nSleep + 1 => pc = "sleep" /\ pc' = "poll"]_vars
  /\ [][lastReq.kind = "submit" /\ lastReq'.kind = "status" => nSleep' = 0]_vars
  /\ [][lastReq'.kind = "fetch" /\ lastReq.kind # "fetch"
          => lastReq.kind = "status" /\ nSleep' = nSleep]_vars

\* [pending, pending, ready]: two waits of 2, none before the fetch
C17_Witness ==
  /\ pc = "fetch" /\ JobCall /\ nNonReady = 2 /\ nStatus = 3
  /\ nSleep = 2 /\ slept = 4

(***************************************************************************)
(* C19: when the job is ready and the snapshot fetch answers an empty      *)
(* array, the call returns a string beginning "Dataset Job Failed: " (the  *)
(* failed [0]), not a default answer, and sends no further request.        *)
(***************************************************************************)
EmptyFetch == fetchResp.kind = "list" /\ fetchResp.records = <<>>

C19_EmptyArrayFails ==
  /\ [](JobCall /\ EmptyFetch
          => /\ pc \in {"done", "idle"}
             /\ result.kind = "str"
             /\ StartsWith(result.val, "Dataset Job Failed: ")
             /\ ~Contains("No answer generated.", result.val)
             /\ lastReq.kind = "fetch" /\ nFetch = 1)
  /\ [][JobCall /\ EmptyFetch /\ JobCall' /\ EmptyFetch' => lastReq' = lastReq]_vars

\* the snapshot fetch answered []
C19_Witness ==
  /\ Returned /\ JobCall /\ EmptyFetch
  /\ result = RetStr("Dataset Job Failed: list index out of range")

(***************************************************************************)
(* C20: for a target whose URL contains "perplexity" the suffix            *)
(* "\n\n**Sources:** " follows every fetched answer, with an empty list    *)
(* when the record has no sources field; the same test on the URL, and     *)
(* nothing else, selects the 'sources' output field of the submission.     *)
(***************************************************************************)
PerplexityTarget == Contains("perplexity", target)

C20_SuffixByTargetOnly ==
  /\ Returned /\ JobCall /\ FetchedRecord =>
       /\ PerplexityTarget <=>
            (result.kind = "str" /\ Contains("\n\n**Sources:** ", result.val))
       /\ PerplexityTarget /\ fetchResp.records[1].sources.k = "absent" =>
            result.val = ExpectedAnswer \o "\n\n**Sources:** []"
  /\ lastReq.kind = "submit" =>
       (PerplexityTarget <=> EndsWith(lastReq.url, "answer_text_markdown|sources"))

\* perplexity_tool fetched a record without a sources field
C20_Witness ==
  /\ Returned /\ fn = "perplexity_tool" /\ FetchedRecord
  /\ fetchResp.records[1].sources.k = "absent"
  /\ fetchResp.records[1].answer = Str("It is 42.")
  /\ EndsWith(result.val, "**Sources:** []")

(***************************************************************************)
(* C14: the registry bindings are fixed.  google_tool calls the            *)
(* synchronous adapter with its query unchanged on the web search          *)
(* resource; reddit_tool calls it on the same resource with the query      *)
(* "site:reddit.com " followed by its query; perplexity_tool calls the     *)
(* asynchronous adapter with its query unchanged on the citation-bearing   *)
(* backend, and every record it fetches is returned with the sources       *)
(* suffix.                                                                 *)
(***************************************************************************)
SearchBinding(q) ==
  /\ query = q /\ target = "https://google.com/search"
  /\ nSubmit = 0 /\ nStatus = 0 /\ nFetch = 0
  /\ lastReq.kind \in {"none", "search"}
  /\ lastReq.kind = "search" =>
       /\ lastReq.url = SEARCH_API
       /\ lastReq.purl =
            "https://google.com/search?q=" \o Quote(q) \o "&brd_json=1"

C14_RegistryBindings ==
  /\ fn = "google_tool" => SearchBinding(toolArg)
  /\ fn = "reddit_tool" => SearchBinding("site:reddit.com " \o toolArg)
  /\ fn = "perplexity_tool" =>
       /\ query = toolArg /\ target = "https://www.perplexity.ai"
       /\ dataset_id = BD_PERPLEXITY_ID
       /\ nPost = 0
       /\ lastReq.kind \in {"none", "submit", "status", "fetch"}
       /\ lastReq.kind = "submit" =>
            /\ lastReq.prompt = toolArg
            /\ lastReq.purl = "https://www.perplexity.ai"
            /\ lastReq.url =
                 TRIGGER_API \o BD_PERPLEXITY_ID
                 \o "&format=json&custom_output_fields=answer_text_markdown|sources"
       /\ Returned /\ FetchedRecord =>
            /\ result.kind = "str"
            /\ Contains("\n\n**Sources:** ", result.val)

\* reddit_tool("python: a?") has sent its one search request
C14_Witness ==
  /\ fn = "reddit_tool" /\ toolArg = "python: a?" /\ Returned
  /\ lastReq.purl =
       "https://google.com/search?q=site%3Areddit.com%20python%3A%20a%3F&brd_json=1"
  /\ result = RetStr("No results found.")

(***************************************************************************)
(* C18: on a JSON request whose query is missing or is empty after         *)
(* trimming whitespace the home route answers with an error body and       *)
(* status 400 and the agent is never invoked, so no tool runs; when the    *)
(* agent invocation raises it answers with an error body and status 500;   *)
(* on every other JSON request it answers with an answer body.             *)
(***************************************************************************)
QueryMissingOrBlank ==
  \/ hreq.query.k = "absent"
  \/ hreq.query.k = "str" /\ Strip(hreq.query.s) = ""

C18_HomeRoute ==
  /\ hpc # "agent" => pc = "idle"
  /\ hpc = "sent" /\ hreq.json =>
       IF QueryMissingOrBlank
       THEN hresp.kind = "error" /\ hresp.status = 400 /\ invoke = "none"
       ELSE IF invoke = "raised"
       THEN hresp.kind = "error" /\ hresp.status = 500
       ELSE hresp.kind = "answer"

(***************************************************************************)
(* C12: a tool called twice with the same argument, the backend giving the *)
(* second call the responses it gave the first, returns the same value     *)
(* both times: the second call sends as many requests as the first and     *)
(* nothing the first call left behind changes its result.                  *)
(***************************************************************************)
C12_SameResponsesSameResult ==
  mode = "replay" =>
    /\ fn = first.fn /\ toolArg = first.toolArg
    /\ pc = "poll" => Len(statusLog) < Len(first.statusLog)
    /\ Returned =>
         /\ result = first.result
         /\ statusLog = first.statusLog
         /\ searchResp = first.searchResp /\ fetchResp = first.fetchResp

\* the second perplexity_tool call has polled three times and fetched a
\* record, as the first one did
C12_Witness ==
  /\ mode = "replay" /\ Returned /\ fn = "perplexity_tool"
  /\ Len(statusLog) = 3 /\ FetchedRecord
  /\ result = first.result /\ result.kind = "str"

(***************************************************************************)
(* C13: calls that run interleaved share no state that one writes and      *)
(* another reads.  Every progress and snapshot request of a call carries   *)
(* the handle that its own submission returned, the steps of the running   *)
(* call leave the locals of the other call as they are, and a call returns *)
(* what its own responses make it return when it runs alone.               *)
(***************************************************************************)
\* the requests of the call with locals l carry the handle of its submission
OwnHandleOnly(l) ==
  /\ l.lastReq.kind = "status" =>
       l.lastReq.url = PROGRESS_API \o Fmt(l.submitResp.snapshot_id)
  /\ l.lastReq.kind = "fetch" =>
       l.lastReq.url =
         SNAPSHOT_API \o Fmt(l.submitResp.snapshot_id) \o "?format=json"

\* the value of the call from its own responses
AloneResult ==
  IF submitResp.kind # "obj" THEN ExceptJob(submitResp.detail)
  ELSE IF ~Truthy(submitResp.snapshot_id) THEN StartError
  ELSE IF statusResp.kind # "obj" THEN ExceptJob(statusResp.detail)
  ELSE IF statusResp.status.k = "absent" THEN ExceptJob(KeyErrorStatus)
  ELSE FetchOutcome(fetchResp, target)

C13_CallsIsolated ==
  /\ [](OwnHandleOnly(Locals) /\ OwnHandleOnly(parked))
  /\ [](Returned => result = AloneResult)
  /\ [][tid' = tid => parked' = parked]_vars
  /\ [][tid' # tid => parked' = Locals /\ Locals' = parked]_vars

\* thread 1 has polled twice and fetched with its handle s_1 after thread 2
\* was given the handle s_2 and went to sleep
C13_Witness ==
  /\ tid = 1 /\ Returned /\ FetchedRecord /\ nStatus = 2
  /\ snapshot_id = "s_1" /\ lastHandle = "s_2"
  /\ parked.pc = "sleep" /\ parked.snapshot_id = "s_2"
====
